---------------------------- MODULE Spec2Model ----------------------------
(***************************************************************************)
(* A model of the two import scripts of redis-dumps:                       *)
(*                                                                         *)
(*   h1b_to_redis.py            CSV rows -> applications, employers, soc,   *)
(*                              jobs (ids minted by three Lua scripts)     *)
(*   stackexchange_to_redis.py  XML rows -> questions, answers, tags, ...   *)
(*                                                                         *)
(* Both share get_batches / import_in_batches: a driver pulls batches of    *)
(* 100 records, queues the commands of every record of the batch in a       *)
(* redis-py pipeline and calls pipe.execute().  red.pipeline() is           *)
(* redis-py's transactional pipeline (transaction=True is its default):     *)
(* execute() sends MULTI .. EXEC, and the server runs the queued commands   *)
(* one after the other with no command of another client in between.        *)
(*                                                                         *)
(* The store is the Redis keyspace, one map per value type, keyed by the    *)
(* key strings the scripts build.  Python values: a str is a string, a      *)
(* float or int is Num(x) (integers stand for the floats), None is None.    *)
(***************************************************************************)
EXTENDS Integers, Sequences, FiniteSets, TLC

VARIABLES
    store,      \* the Redis keyspace
    exec,       \* the MULTI/EXEC transaction the server is running
    objs,       \* per driver: the records its source has not yet yielded
    batch,      \* per driver: the batch of the current loop iteration
    pipe,       \* per driver: the commands queued in the current pipeline
    pc,         \* per driver: position in import_in_batches
    kind,       \* per driver: which importer it runs (its callback)
    log,        \* history: the Lua script calls the server has run, in order
    nbatch,     \* history: per driver, batches pulled so far
    ncalls,     \* history: per driver, callback invocations so far
    flushes,    \* history: per driver, the flushes sent so far
    queued,     \* history: per driver, the commands queued for each batch
    pushes,     \* history: per list key, the values pushed so far, in order
    fnargs,     \* the arguments of the function, or of the runs, under study
    fnresult    \* what the function returned, or the keyspace a run left

vars == <<store, exec, objs, batch, pipe, pc, kind, log, nbatch, ncalls,
          flushes, queued, pushes, fnargs, fnresult>>
fnVars == <<fnargs, fnresult>>

---------------------------------------------------------------------------
(* Bounds of the model and constants of the program.                        *)

\* batch_size passed by import_in_batches
BatchSize == 100
\* stop index of the ltrim on tags:<tag>:recent_questions
TrimStop == 200
\* records over all h1b drivers of a run of the model
MaxRecs == 3

Drivers == {"d1", "d2"}

---------------------------------------------------------------------------
(* Python values.                                                           *)

None == [none |-> TRUE]
Num(x) == [num |-> x]

\* truth value of a float-or-None (if application.lat ...)
TruthyNum(v) == v # None /\ v.num # 0
\* truth value of a str (if application.id)
TruthyStr(s) == s # ""
\* truth value of a list-or-None (if tags ...), None being written <<>>
TruthyList(v) == v # <<>>
\* truth value of a batch slot (if obj): None and an empty dict are false
TruthyObj(obj) == obj # None /\ DOMAIN obj # {}

Min(a, b) == IF a <= b THEN a ELSE b

---------------------------------------------------------------------------
(* Redis commands, on a keyspace s.                                         *)

Put(f, k, v) == (k :> v) @@ f
Lookup(f, k, default) == IF k \in DOMAIN f THEN f[k] ELSE default
NoMap == <<>>

EmptyStore ==
    [strings |-> NoMap, hashes |-> NoMap, zsets |-> NoMap,
     sets |-> NoMap, lists |-> NoMap, geo |-> NoMap]

HExists(s, key, field) ==
    key \in DOMAIN s.hashes /\ field \in DOMAIN s.hashes[key]

HGet(s, key, field) == s.hashes[key][field]

\* INCRBY: an absent key counts as 0; the reply is the new value
IncrBy(s, key, n) ==
    [s EXCEPT !.strings = Put(@, key, Lookup(@, key, 0) + n)]

HSet(s, key, field, value) ==
    [s EXCEPT !.hashes = Put(@, key, Put(Lookup(@, key, NoMap), field, value))]

\* HMSET: every field of mapping is set, the other fields of the hash stay
HMSet(s, key, mapping) ==
    [s EXCEPT !.hashes = Put(@, key, mapping @@ Lookup(@, key, NoMap))]

\* ZADD: the member's score is set, overwriting an earlier score
ZAdd(s, key, score, member) ==
    [s EXCEPT !.zsets = Put(@, key, Put(Lookup(@, key, NoMap), member, score))]

\* GEOADD: the member's position is set
GeoAdd(s, key, long, lat, member) ==
    [s EXCEPT !.geo = Put(@, key, Put(Lookup(@, key, NoMap), member, <<long, lat>>))]

\* SADD: the members join the set
SAdd(s, key, members) ==
    [s EXCEPT !.sets = Put(@, key, Lookup(@, key, {}) \cup members)]

\* mutant: rpush for lpush, the value becomes the tail of the list
LPush_Tail(s, key, value) ==
    [s EXCEPT !.lists = Put(@, key, Lookup(@, key, <<>>) \o <<value>>)]

\* LPUSH: the value becomes the head of the list
LPush(s, key, value) ==
    [s EXCEPT !.lists = Put(@, key, <<value>> \o Lookup(@, key, <<>>))]

\* LTRIM with indices start, stop >= 0: the elements start..stop (counted
\* from 0, both included) stay
LTrim(s, key, start, stop) ==
    LET l == Lookup(s.lists, key, <<>>)
    IN  [s EXCEPT !.lists = Put(@, key, SubSeq(l, start + 1, Min(stop + 1, Len(l))))]

\* RPUSH: the value becomes the tail of the list
RPush(s, key, value) ==
    [s EXCEPT !.lists = Put(@, key, Lookup(@, key, <<>>) \o <<value>>)]

\* ZINCRBY: the member's score grows by amount, an absent member counting as 0
ZIncrBy(s, key, member, amount) ==
    [s EXCEPT !.zsets = Put(@, key, Put(Lookup(@, key, NoMap), member,
                                        Lookup(Lookup(@, key, NoMap), member, 0) + amount))]

---------------------------------------------------------------------------
(* h1b_to_redis.py: the three Lua scripts.  Each returns the keyspace it    *)
(* leaves, and for the history the id it resolved and the branch it took.   *)
(* A Lua number concatenated to a string, or passed to redis.call, is       *)
(* written in decimal (ToString); hget returns the string hset stored.      *)

\* mutant: the hexists reply is compared with true, which a number never equals
SaveEmployerScript_AlwaysCreate(s, KEYS, ARGV) ==
    LET EMPLOYER_NAME_TO_ID == KEYS[1]
        EMPLOYER_ID_COUNTER == KEYS[2]
        employer_name == ARGV[1]
        applicationid == ARGV[2]
        salary == ARGV[3]
        exists == FALSE /\ HExists(s, EMPLOYER_NAME_TO_ID, employer_name)
        s1 == IF exists THEN s ELSE IncrBy(s, EMPLOYER_ID_COUNTER, 1)
        employerid == IF exists
                      THEN HGet(s, EMPLOYER_NAME_TO_ID, employer_name)
                      ELSE ToString(s1.strings[EMPLOYER_ID_COUNTER])
        s2 == IF exists THEN s1
              ELSE HSet(s1, EMPLOYER_NAME_TO_ID, employer_name, employerid)
        s3 == IF exists THEN s2
              ELSE HMSet(s2, "employers:" \o employerid,
                         [name |-> employer_name, id |-> employerid])
        s4 == ZAdd(s3, "employers:" \o employerid \o ":wages_by_application",
                   salary, applicationid)
    IN  [store |-> s4, id |-> employerid, created |-> ~exists]

\* mutant: the zadd sits inside the else branch, so an existing id drops the score
SaveEmployerScript_ZAddOnCreate(s, KEYS, ARGV) ==
    LET EMPLOYER_NAME_TO_ID == KEYS[1]
        EMPLOYER_ID_COUNTER == KEYS[2]
        employer_name == ARGV[1]
        applicationid == ARGV[2]
        salary == ARGV[3]
        exists == HExists(s, EMPLOYER_NAME_TO_ID, employer_name)
        s1 == IF exists THEN s ELSE IncrBy(s, EMPLOYER_ID_COUNTER, 1)
        employerid == IF exists
                      THEN HGet(s, EMPLOYER_NAME_TO_ID, employer_name)
                      ELSE ToString(s1.strings[EMPLOYER_ID_COUNTER])
        s2 == IF exists THEN s1
              ELSE HSet(s1, EMPLOYER_NAME_TO_ID, employer_name, employerid)
        s3 == IF exists THEN s2
              ELSE HMSet(s2, "employers:" \o employerid,
                         [name |-> employer_name, id |-> employerid])
        s4 == IF exists THEN s3 ELSE ZAdd(s3, "employers:" \o employerid \o ":wages_by_application",
                   salary, applicationid)
    IN  [store |-> s4, id |-> employerid, created |-> ~exists]

SaveEmployerScript(s, KEYS, ARGV) ==
    LET EMPLOYER_NAME_TO_ID == KEYS[1]
        EMPLOYER_ID_COUNTER == KEYS[2]
        employer_name == ARGV[1]
        applicationid == ARGV[2]
        salary == ARGV[3]
        exists == HExists(s, EMPLOYER_NAME_TO_ID, employer_name)
        s1 == IF exists THEN s ELSE IncrBy(s, EMPLOYER_ID_COUNTER, 1)
        employerid == IF exists
                      THEN HGet(s, EMPLOYER_NAME_TO_ID, employer_name)
                      ELSE ToString(s1.strings[EMPLOYER_ID_COUNTER])
        s2 == IF exists THEN s1
              ELSE HSet(s1, EMPLOYER_NAME_TO_ID, employer_name, employerid)
        s3 == IF exists THEN s2
              ELSE HMSet(s2, "employers:" \o employerid,
                         [name |-> employer_name, id |-> employerid])
        s4 == ZAdd(s3, "employers:" \o employerid \o ":wages_by_application",
                   salary, applicationid)
    IN  [store |-> s4, id |-> employerid, created |-> ~exists]

\* mutant: the counter is incremented before the hexists check
SaveSocScript_IncrFirst(s, KEYS, ARGV) ==
    LET SOC_NAME_TO_ID == KEYS[1]
        SOC_ID_COUNTER == KEYS[2]
        soc_name == ARGV[1]
        applicationid == ARGV[2]
        salary == ARGV[3]
        exists == HExists(s, SOC_NAME_TO_ID, soc_name)
        s1 == IncrBy(s, SOC_ID_COUNTER, 1)
        socid == IF exists
                 THEN HGet(s, SOC_NAME_TO_ID, soc_name)
                 ELSE ToString(s1.strings[SOC_ID_COUNTER])
        s2 == IF exists THEN s1
              ELSE HSet(s1, SOC_NAME_TO_ID, soc_name, socid)
        s3 == IF exists THEN s2
              ELSE HMSet(s2, "soc:" \o socid, [name |-> soc_name, id |-> socid])
        s4 == ZAdd(s3, "soc:" \o socid \o ":wages_by_application",
                   salary, applicationid)
    IN  [store |-> s4, id |-> socid, created |-> ~exists]

SaveSocScript(s, KEYS, ARGV) ==
    LET SOC_NAME_TO_ID == KEYS[1]
        SOC_ID_COUNTER == KEYS[2]
        soc_name == ARGV[1]
        applicationid == ARGV[2]
        salary == ARGV[3]
        exists == HExists(s, SOC_NAME_TO_ID, soc_name)
        s1 == IF exists THEN s ELSE IncrBy(s, SOC_ID_COUNTER, 1)
        socid == IF exists
                 THEN HGet(s, SOC_NAME_TO_ID, soc_name)
                 ELSE ToString(s1.strings[SOC_ID_COUNTER])
        s2 == IF exists THEN s1
              ELSE HSet(s1, SOC_NAME_TO_ID, soc_name, socid)
        s3 == IF exists THEN s2
              ELSE HMSet(s2, "soc:" \o socid, [name |-> soc_name, id |-> socid])
        s4 == ZAdd(s3, "soc:" \o socid \o ":wages_by_application",
                   salary, applicationid)
    IN  [store |-> s4, id |-> socid, created |-> ~exists]

\* mutant: the new id is not recorded in the name-to-id map
SaveJobScript_NoHSet(s, KEYS, ARGV) ==
    LET JOB_NAME_TO_ID == KEYS[1]
        JOB_ID_COUNTER == KEYS[2]
        job_name == ARGV[1]
        applicationid == ARGV[2]
        salary == ARGV[3]
        exists == HExists(s, JOB_NAME_TO_ID, job_name)
        s1 == IF exists THEN s ELSE IncrBy(s, JOB_ID_COUNTER, 1)
        jobid == IF exists
                 THEN HGet(s, JOB_NAME_TO_ID, job_name)
                 ELSE ToString(s1.strings[JOB_ID_COUNTER])
        s2 == s1
        s3 == IF exists THEN s2
              ELSE HMSet(s2, "jobs:" \o jobid, [name |-> job_name, id |-> jobid])
        s4 == ZAdd(s3, "jobs:" \o jobid \o ":wages_by_application",
                   salary, applicationid)
    IN  [store |-> s4, id |-> jobid, created |-> ~exists]

\* mutant: the incrby stands before the if, every call counts
SaveJobScript_CountCalls(s, KEYS, ARGV) ==
    LET JOB_NAME_TO_ID == KEYS[1]
        JOB_ID_COUNTER == KEYS[2]
        job_name == ARGV[1]
        applicationid == ARGV[2]
        salary == ARGV[3]
        exists == HExists(s, JOB_NAME_TO_ID, job_name)
        s1 == IncrBy(s, JOB_ID_COUNTER, 1)
        jobid == IF exists
                 THEN HGet(s, JOB_NAME_TO_ID, job_name)
                 ELSE ToString(s1.strings[JOB_ID_COUNTER])
        s2 == IF exists THEN s1
              ELSE HSet(s1, JOB_NAME_TO_ID, job_name, jobid)
        s3 == IF exists THEN s2
              ELSE HMSet(s2, "jobs:" \o jobid, [name |-> job_name, id |-> jobid])
        s4 == ZAdd(s3, "jobs:" \o jobid \o ":wages_by_application",
                   salary, applicationid)
    IN  [store |-> s4, id |-> jobid, created |-> ~exists]

\* mutant: the counter is incremented by 2
SaveJobScript_IncrBy2(s, KEYS, ARGV) ==
    LET JOB_NAME_TO_ID == KEYS[1]
        JOB_ID_COUNTER == KEYS[2]
        job_name == ARGV[1]
        applicationid == ARGV[2]
        salary == ARGV[3]
        exists == HExists(s, JOB_NAME_TO_ID, job_name)
        s1 == IF exists THEN s ELSE IncrBy(s, JOB_ID_COUNTER, 2)
        jobid == IF exists
                 THEN HGet(s, JOB_NAME_TO_ID, job_name)
                 ELSE ToString(s1.strings[JOB_ID_COUNTER])
        s2 == IF exists THEN s1
              ELSE HSet(s1, JOB_NAME_TO_ID, job_name, jobid)
        s3 == IF exists THEN s2
              ELSE HMSet(s2, "jobs:" \o jobid, [name |-> job_name, id |-> jobid])
        s4 == ZAdd(s3, "jobs:" \o jobid \o ":wages_by_application",
                   salary, applicationid)
    IN  [store |-> s4, id |-> jobid, created |-> ~exists]

SaveJobScript(s, KEYS, ARGV) ==
    LET JOB_NAME_TO_ID == KEYS[1]
        JOB_ID_COUNTER == KEYS[2]
        job_name == ARGV[1]
        applicationid == ARGV[2]
        salary == ARGV[3]
        exists == HExists(s, JOB_NAME_TO_ID, job_name)
        s1 == IF exists THEN s ELSE IncrBy(s, JOB_ID_COUNTER, 1)
        jobid == IF exists
                 THEN HGet(s, JOB_NAME_TO_ID, job_name)
                 ELSE ToString(s1.strings[JOB_ID_COUNTER])
        s2 == IF exists THEN s1
              ELSE HSet(s1, JOB_NAME_TO_ID, job_name, jobid)
        s3 == IF exists THEN s2
              ELSE HMSet(s2, "jobs:" \o jobid, [name |-> job_name, id |-> jobid])
        s4 == ZAdd(s3, "jobs:" \o jobid \o ":wages_by_application",
                   salary, applicationid)
    IN  [store |-> s4, id |-> jobid, created |-> ~exists]

---------------------------------------------------------------------------
(* h1b_to_redis.py: the record source and the writer.                       *)

\* float(val) on the strings of the model's rows; any other string raises
FloatOf ==
    ("50000" :> 50000) @@ ("60000" :> 60000) @@ ("0" :> 0) @@
    ("-97" :> -97) @@ ("30" :> 30)

_coerce_float(val, default) ==
    IF val \in DOMAIN FloatOf THEN Num(FloatOf[val]) ELSE default

\* one CSV row -> Application (the fields in the order of the namedtuple)
MakeApplication(row) ==
    [id |-> row[1], case_status |-> row[2], employer_name |-> row[3],
     soc_name |-> row[4], job_title |-> row[5], full_time_position |-> row[6],
     prevailing_wage |-> _coerce_float(row[7], Num(-1)), year |-> row[8],
     worksite |-> row[9], long |-> _coerce_float(row[10], None),
     lat |-> _coerce_float(row[11], None)]

\* mutant: a row whose wage is not a number is not yielded either
RECURSIVE parse_applications_DropBadWage(_)
parse_applications_DropBadWage(rows) ==
    IF rows = <<>> THEN <<>>
    ELSE LET application == MakeApplication(Head(rows))
         IN  (IF TruthyStr(application.id) /\ Head(rows)[7] \in DOMAIN FloatOf
              THEN <<application>> ELSE <<>>)
             \o parse_applications_DropBadWage(Tail(rows))

\* the rows after the header row; a row whose id is empty is not yielded
RECURSIVE parse_applications(_)
parse_applications(rows) ==
    IF rows = <<>> THEN <<>>
    ELSE LET application == MakeApplication(Head(rows))
         IN  (IF TruthyStr(application.id) THEN <<application>> ELSE <<>>)
             \o parse_applications(Tail(rows))

_save_employer(application, p) ==
    Append(p, [cmd |-> "EVALSHA", script |-> "save_employer",
               keys |-> <<"employer_name_to_id", "employer_id_counter">>,
               args |-> <<application.employer_name, application.id,
                          application.prevailing_wage.num>>])

\* mutant: the soc script is handed the employer counter
_save_soc_EmployerCounter(application, p) ==
    Append(p, [cmd |-> "EVALSHA", script |-> "save_soc",
               keys |-> <<"soc_name_to_id", "employer_id_counter">>,
               args |-> <<application.soc_name, application.id,
                          application.prevailing_wage.num>>])

_save_soc(application, p) ==
    Append(p, [cmd |-> "EVALSHA", script |-> "save_soc",
               keys |-> <<"soc_name_to_id", "soc_id_counter">>,
               args |-> <<application.soc_name, application.id,
                          application.prevailing_wage.num>>])

_save_job(application, p) ==
    Append(p, [cmd |-> "EVALSHA", script |-> "save_job",
               keys |-> <<"job_name_to_id", "job_id_counter">>,
               args |-> <<application.job_title, application.id,
                          application.prevailing_wage.num>>])

save_application(application, p) ==
    LET p1 == IF TruthyNum(application.lat) /\ TruthyNum(application.long)
              THEN Append(p, [cmd |-> "GEOADD", key |-> "application_location",
                              args |-> <<application.long.num,
                                         application.lat.num, application.id>>])
              ELSE p
        p2 == Append(p1, [cmd |-> "HMSET",
                          key |-> "applications:" \o application.id,
                          args |-> <<application>>])
    IN  _save_job(application, _save_soc(application, _save_employer(application, p2)))

---------------------------------------------------------------------------
(* stackexchange_to_redis.py: the writer of posts.  A row is a dict: a      *)
(* function from attribute names to strings.  The value of the tags         *)
(* attribute, such as "<redis><lua>", is written as the sequence of its     *)
(* pieces: "<", "redis", ">", "<", "lua", ">".                              *)

\* int(s) on the strings of the model's rows; any other string raises
IntOf ==
    ("0" :> 0) @@ ("1" :> 1) @@ ("2" :> 2) @@ ("3" :> 3) @@ ("5" :> 5) @@
    ("7" :> 7) @@ ("12" :> 12)

\* s.strip() on the strings of the model's rows
Strip(str) == IF str = " 1 " THEN "1" ELSE IF str = "2 " THEN "2" ELSE str

\* str.replace(a \o b, c) on a sequence of pieces
RECURSIVE Replace2(_, _, _, _)
Replace2(str, a, b, c) ==
    IF Len(str) < 2 THEN str
    ELSE IF str[1] = a /\ str[2] = b
         THEN <<c>> \o Replace2(SubSeq(str, 3, Len(str)), a, b, c)
         ELSE <<str[1]>> \o Replace2(Tail(str), a, b, c)

\* str.replace(a, "")
Remove(str, a) == SelectSeq(str, LAMBDA t : t # a)

\* str.split(sep): the strings between the separators
RECURSIVE Split(_, _)
Split(str, sep) ==
    IF str = <<>> THEN <<"">>
    ELSE LET rest == Split(Tail(str), sep)
         IN  IF Head(str) = sep THEN <<"">> \o rest
             ELSE <<Head(str) \o Head(rest)>> \o Tail(rest)

\* the list of tags, with <<>> for None: both are false in `if tags`, and
\* split never returns an empty list
_parse_tags(tag_str) ==
    LET t1 == Replace2(tag_str, ">", "<", ",")
        t2 == Remove(t1, ">")
        t3 == Remove(t2, "<")
    IN  IF t3 # <<>> THEN Split(t3, ",") ELSE <<>>

\* mutant: the else branch is the one of the commented-out lines
_post_type_Generic(posttypeid) ==
    LET n == IntOf[Strip(posttypeid)]
    IN  IF n = 1 THEN "questions" ELSE IF n = 2 THEN "answers" ELSE "generic-post"

\* the post type, with "" for None: both are false in `if not post_type`,
\* and a false post type is put to no other use
_post_type(posttypeid) ==
    LET n == IntOf[Strip(posttypeid)]
    IN  IF n = 1 THEN "questions" ELSE IF n = 2 THEN "answers" ELSE ""

\* mutant: the ltrim after the lpush is left out
RECURSIVE TagLoop_NoTrim(_, _, _)
TagLoop_NoTrim(post, tags, p) ==
    IF tags = <<>> THEN [p |-> p, raised |-> FALSE]
    ELSE IF "score" \notin DOMAIN post \/ "id" \notin DOMAIN post
         THEN [p |-> p, raised |-> TRUE]
         ELSE LET tag == Head(tags)
                  p1 == Append(p, [cmd |-> "ZADD",
                                   key |-> "tags:" \o tag \o ":questions_by_score",
                                   args |-> <<post["score"], post["id"]>>])
                  p2 == IF "view_count" \in DOMAIN post
                        THEN Append(p1, [cmd |-> "ZADD",
                                         key |-> "tags:" \o tag \o ":questions_by_views",
                                         args |-> <<post["view_count"], post["id"]>>])
                        ELSE p1
                  p3 == Append(p2, [cmd |-> "LPUSH",
                                    key |-> "tags:" \o tag \o ":recent_questions",
                                    args |-> <<post["id"]>>])
                  p4 == p3
              IN  TagLoop_NoTrim(post, Tail(tags), p4)

\* for tag in tags: ...; post['score'] or post['id'] missing is a KeyError
RECURSIVE TagLoop(_, _, _)
TagLoop(post, tags, p) ==
    IF tags = <<>> THEN [p |-> p, raised |-> FALSE]
    ELSE IF "score" \notin DOMAIN post \/ "id" \notin DOMAIN post
         THEN [p |-> p, raised |-> TRUE]
         ELSE LET tag == Head(tags)
                  p1 == Append(p, [cmd |-> "ZADD",
                                   key |-> "tags:" \o tag \o ":questions_by_score",
                                   args |-> <<post["score"], post["id"]>>])
                  p2 == IF "view_count" \in DOMAIN post
                        THEN Append(p1, [cmd |-> "ZADD",
                                         key |-> "tags:" \o tag \o ":questions_by_views",
                                         args |-> <<post["view_count"], post["id"]>>])
                        ELSE p1
                  p3 == Append(p2, [cmd |-> "LPUSH",
                                    key |-> "tags:" \o tag \o ":recent_questions",
                                    args |-> <<post["id"]>>])
                  p4 == Append(p3, [cmd |-> "LTRIM",
                                    key |-> "tags:" \o tag \o ":recent_questions",
                                    args |-> <<0, TrimStop>>])
              IN  TagLoop(post, Tail(tags), p4)

\* if 'tags' in post: ... (post is the dict after del post['tags'])
TagCommands(post, tags, post_type, p) ==
    IF TruthyList(tags) /\ post_type = "questions"
    THEN IF "id" \notin DOMAIN post THEN [p |-> p, raised |-> TRUE]
         ELSE TagLoop(post, tags,
                      Append(p, [cmd |-> "SADD",
                                 key |-> "questions:" \o post["id"] \o ":tags",
                                 args |-> tags]))
    ELSE [p |-> p, raised |-> FALSE]

\* if 'owneruserid' in post: ...
OwnerCommands(post, post_type, p) ==
    IF "score" \notin DOMAIN post \/ "id" \notin DOMAIN post
    THEN [p |-> p, raised |-> TRUE]
    ELSE LET p1 == Append(p, [cmd |-> "ZADD",
                              key |-> "users:" \o post["owneruserid"] \o ":"
                                      \o post_type \o "_by_score",
                              args |-> <<post["score"], post["id"]>>])
         IN  [p |-> IF "view_count" \in DOMAIN post /\ post_type = "questions"
                    THEN Append(p1, [cmd |-> "ZADD",
                                     key |-> "users:" \o post["owneruserid"]
                                             \o ":questions_by_views",
                                     args |-> <<post["view_count"], post["id"]>>])
                    ELSE p1,
              raised |-> FALSE]

_import_post(post0, p) ==
    IF "posttypeid" \notin DOMAIN post0 \/ Strip(post0["posttypeid"]) \notin DOMAIN IntOf
    THEN [p |-> p, raised |-> TRUE]
    ELSE
    LET post_type == _post_type(post0["posttypeid"])
    IN  IF post_type = "" THEN [p |-> p, raised |-> FALSE]
        ELSE
        LET has_tags == "tags" \in DOMAIN post0
            post == IF has_tags
                    THEN [f \in DOMAIN post0 \ {"tags"} |-> post0[f]]
                    ELSE post0
            r1 == IF has_tags
                  THEN TagCommands(post, _parse_tags(post0["tags"]), post_type, p)
                  ELSE [p |-> p, raised |-> FALSE]
            r2 == IF r1.raised \/ "owneruserid" \notin DOMAIN post THEN r1
                  ELSE OwnerCommands(post, post_type, r1.p)
            r3 == IF r2.raised THEN r2
                  ELSE IF "id" \notin DOMAIN post THEN [p |-> r2.p, raised |-> TRUE]
                  ELSE [p |-> Append(r2.p, [cmd |-> "HMSET",
                                            key |-> post_type \o ":" \o post["id"],
                                            args |-> <<post>>]),
                        raised |-> FALSE]
            r4 == IF r3.raised \/ ~(post_type = "answers" /\ "parentid" \in DOMAIN post)
                  THEN r3
                  ELSE [p |-> Append(r3.p, [cmd |-> "SADD",
                                            key |-> "questions:" \o post["parentid"]
                                                    \o ":answers",
                                            args |-> <<post["id"]>>]),
                        raised |-> FALSE]
        IN  r4

---------------------------------------------------------------------------
(* stackexchange_to_redis.py: the writers of users, badges and comments.    *)
(* A subscript on a missing attribute is a KeyError: the callback stops     *)
(* with what it had queued.                                                 *)

_import_user(user, p) ==
    IF "id" \notin DOMAIN user THEN [p |-> p, raised |-> TRUE]
    ELSE LET p1 == Append(p, [cmd |-> "HMSET", key |-> "users:" \o user["id"],
                              args |-> <<user>>])
         IN  IF "reputation" \notin DOMAIN user THEN [p |-> p1, raised |-> TRUE]
             ELSE [p |-> Append(p1, [cmd |-> "ZADD", key |-> "users_by_reputation",
                                     args |-> <<user["reputation"], user["id"]>>]),
                   raised |-> FALSE]

_import_user_badge(badge, p) ==
    IF "userid" \notin DOMAIN badge \/ "name" \notin DOMAIN badge
    THEN [p |-> p, raised |-> TRUE]
    ELSE LET p1 == Append(p, [cmd |-> "SADD",
                              key |-> "users:" \o badge["userid"] \o ":badges",
                              args |-> <<badge["name"]>>])
             p2 == Append(p1, [cmd |-> "SADD",
                               key |-> "badges:" \o badge["name"] \o ":users",
                               args |-> <<badge["userid"]>>])
             p3 == Append(p2, [cmd |-> "ZINCRBY", key |-> "badges_by_popularity",
                               args |-> <<badge["name"], 1>>])
         IN  [p |-> p3, raised |-> FALSE]

_import_comment(comment, p) ==
    IF "id" \notin DOMAIN comment THEN [p |-> p, raised |-> TRUE]
    ELSE LET p1 == Append(p, [cmd |-> "HMSET", key |-> "comments:" \o comment["id"],
                              args |-> <<comment>>])
             has_user == "userid" \in DOMAIN comment
             p2 == IF has_user /\ "score" \in DOMAIN comment
                   THEN Append(p1, [cmd |-> "ZADD",
                                    key |-> "users:" \o comment["userid"] \o ":comments",
                                    args |-> <<comment["score"], comment["id"]>>])
                   ELSE p1
         IN  IF has_user /\ "score" \notin DOMAIN comment
             THEN [p |-> p1, raised |-> TRUE]
             ELSE IF "postid" \notin DOMAIN comment THEN [p |-> p2, raised |-> TRUE]
             ELSE [p |-> Append(p2, [cmd |-> "RPUSH",
                                     key |-> "posts:" \o comment["postid"] \o ":comments",
                                     args |-> <<comment["id"]>>]),
                   raised |-> FALSE]

---------------------------------------------------------------------------
(* get_batches / import_in_batches (the same in both scripts).              *)

\* mutant: izip for izip_longest, a tuple that runs out of items is dropped
RECURSIVE get_batches_Zip(_, _, _)
get_batches_Zip(iterable, batch_size, fillvalue) ==
    IF Len(iterable) < batch_size \/ batch_size = 0 THEN <<>>
    ELSE <<SubSeq(iterable, 1, batch_size)>>
             \o get_batches_Zip(SubSeq(iterable, batch_size + 1, Len(iterable)),
                                batch_size, fillvalue)

\* izip_longest over batch_size references to one iterator: every tuple
\* takes the next batch_size items, a tuple that runs out of items is
\* filled with fillvalue, and no tuple is made once the iterator is empty
RECURSIVE get_batches(_, _, _)
get_batches(iterable, batch_size, fillvalue) ==
    IF iterable = <<>> \/ batch_size = 0 THEN <<>>
    ELSE LET n == Len(iterable)
             tuple == [j \in 1..batch_size |->
                          IF j <= n THEN iterable[j] ELSE fillvalue]
         IN  <<tuple>> \o get_batches(SubSeq(iterable, Min(n, batch_size) + 1, n),
                                      batch_size, fillvalue)

\* callback(obj, pipe) of the importer a driver runs: the pipeline it
\* leaves, and whether it raised
Callback(k, obj, p) ==
    CASE k = "applications" -> [p |-> save_application(obj, p), raised |-> FALSE]
      [] k = "posts" -> _import_post(obj, p)
      [] k = "users" -> _import_user(obj, p)
      [] k = "badges" -> _import_user_badge(obj, p)
      [] k = "comments" -> _import_comment(obj, p)

\* history: the batch and the slot a command was queued for
Tag(cmds, b, i) == [j \in DOMAIN cmds |-> cmds[j] @@ [b |-> b, rec |-> i]]

\* for obj in batch: if obj: callback(obj, pipe), over the slots lo..hi of
\* batch number b: the commands queued, whether a callback raised (the loop
\* stops there), and the number of callback invocations.  A callback only
\* appends to the pipeline, so the commands of a range of slots are those of
\* its first half followed by those of its second half.
RECURSIVE RunLoop(_, _, _, _, _)
RunLoop(k, slots, lo, hi, b) ==
    IF lo > hi THEN [cmds |-> <<>>, raised |-> FALSE, calls |-> 0]
    ELSE IF lo = hi
         THEN IF TruthyObj(slots[lo])
              THEN LET r == Callback(k, slots[lo], <<>>)
                   IN  [cmds |-> Tag(r.p, b, lo), raised |-> r.raised, calls |-> 1]
              ELSE [cmds |-> <<>>, raised |-> FALSE, calls |-> 0]
         ELSE LET mid == (lo + hi) \div 2
                  left == RunLoop(k, slots, lo, mid, b)
                  right == RunLoop(k, slots, mid + 1, hi, b)
              IN  IF left.raised THEN left
                  ELSE [cmds |-> left.cmds \o right.cmds, raised |-> right.raised,
                        calls |-> left.calls + right.calls]

\* one command of a transaction, run by the server
RunCommand(s, c) ==
    CASE c.cmd = "GEOADD" -> GeoAdd(s, c.key, c.args[1], c.args[2], c.args[3])
      [] c.cmd = "HMSET" -> HMSet(s, c.key, c.args[1])
      [] c.cmd = "SADD" -> SAdd(s, c.key, {c.args[i] : i \in DOMAIN c.args})
      [] c.cmd = "ZADD" -> ZAdd(s, c.key, IntOf[c.args[1]], c.args[2])
      [] c.cmd = "LPUSH" -> LPush(s, c.key, c.args[1])
      [] c.cmd = "LTRIM" -> LTrim(s, c.key, c.args[1], c.args[2])
      [] c.cmd = "RPUSH" -> RPush(s, c.key, c.args[1])
      [] c.cmd = "ZINCRBY" -> ZIncrBy(s, c.key, c.args[1], c.args[2])
      [] c.cmd = "EVALSHA" /\ c.script = "save_employer" ->
             SaveEmployerScript(s, c.keys, c.args).store
      [] c.cmd = "EVALSHA" /\ c.script = "save_soc" ->
             SaveSocScript(s, c.keys, c.args).store
      [] c.cmd = "EVALSHA" /\ c.script = "save_job" ->
             SaveJobScript(s, c.keys, c.args).store

\* what a script call resolved, for the history
ScriptResult(s, c) ==
    CASE c.script = "save_employer" -> SaveEmployerScript(s, c.keys, c.args)
      [] c.script = "save_soc" -> SaveSocScript(s, c.keys, c.args)
      [] c.script = "save_job" -> SaveJobScript(s, c.keys, c.args)

Idle == [owner |-> "none", cmds |-> <<>>]

\* history: the other drivers that hold, queued and not yet sent, a call of
\* the same script for the same natural key
Rivals(owner, c) ==
    {d \in Drivers \ {owner} :
        \E i \in DOMAIN pipe[d] :
            /\ pipe[d][i].cmd = "EVALSHA"
            /\ pipe[d][i].script = c.script
            /\ pipe[d][i].args[1] = c.args[1]}

---------------------------------------------------------------------------
(* The actions.                                                             *)

\* for batch in get_batches(objs, 100): pipe = red.pipeline()
NextBatch(d) ==
    /\ pc[d] = "next"
    /\ IF objs[d] = <<>>
       THEN /\ pc' = [pc EXCEPT ![d] = "done"]
            /\ UNCHANGED <<objs, batch, pipe, nbatch>>
       ELSE /\ batch' = [batch EXCEPT ![d] = Head(get_batches(objs[d], BatchSize, None))]
            /\ objs' = [objs EXCEPT ![d] =
                           SubSeq(@, Min(Len(@), BatchSize) + 1, Len(@))]
            /\ pipe' = [pipe EXCEPT ![d] = <<>>]
            /\ nbatch' = [nbatch EXCEPT ![d] = @ + 1]
            /\ pc' = [pc EXCEPT ![d] = "callbacks"]
    /\ UNCHANGED <<store, exec, kind, log, ncalls, flushes, queued, pushes, fnVars>>

\* the loop over the slots of the batch; it only fills the driver's
\* pipeline.  An exception of a callback leaves import_in_batches: the
\* pipeline is never executed
RunCallbacks(d) ==
    /\ pc[d] = "callbacks"
    /\ LET r == RunLoop(kind[d], batch[d], 1, Len(batch[d]), nbatch[d])
       IN  /\ pipe' = [pipe EXCEPT ![d] = @ \o r.cmds]
           /\ ncalls' = [ncalls EXCEPT ![d] = @ + r.calls]
           /\ queued' = [queued EXCEPT ![d] = Append(@, Len(r.cmds))]
           /\ pc' = [pc EXCEPT ![d] = IF r.raised THEN "raised" ELSE "execute"]
    /\ UNCHANGED <<store, exec, objs, batch, kind, log, nbatch, flushes, pushes, fnVars>>

\* mutant: pipe.execute() is dedented out of the loop over the batches, so
\* it runs once, after the last batch
Execute_AfterLoop(d) ==
    /\ pc[d] = "execute"
    /\ IF objs[d] # <<>>
       THEN /\ pc' = [pc EXCEPT ![d] = "next"]
            /\ UNCHANGED <<exec, flushes, pipe>>
       ELSE /\ exec = Idle
            /\ flushes' = [flushes EXCEPT ![d] = Append(@, [batch |-> nbatch[d], ncmds |-> Len(pipe[d])])]
            /\ IF pipe[d] = <<>>
               THEN /\ pc' = [pc EXCEPT ![d] = "next"]
                    /\ UNCHANGED exec
               ELSE /\ exec' = [owner |-> d, cmds |-> pipe[d]]
                    /\ pc' = [pc EXCEPT ![d] = "waiting"]
            /\ pipe' = [pipe EXCEPT ![d] = <<>>]
    /\ UNCHANGED <<store, objs, batch, kind, log, nbatch, ncalls, queued, pushes, fnVars>>

\* pipe.execute(): MULTI, the queued commands, EXEC; the driver blocks
Execute(d) ==
    /\ pc[d] = "execute"
    /\ exec = Idle
    /\ flushes' = [flushes EXCEPT ![d] = Append(@, [batch |-> nbatch[d], ncmds |-> Len(pipe[d])])]
    /\ IF pipe[d] = <<>>
       THEN /\ pc' = [pc EXCEPT ![d] = "next"]
            /\ UNCHANGED exec
       ELSE /\ exec' = [owner |-> d, cmds |-> pipe[d]]
            /\ pc' = [pc EXCEPT ![d] = "waiting"]
    /\ pipe' = [pipe EXCEPT ![d] = <<>>]
    /\ UNCHANGED <<store, objs, batch, kind, log, nbatch, ncalls, queued, pushes, fnVars>>

\* the server runs the next command of the transaction; after the last one
\* execute() returns to the driver, if the driver still waits for the reply
ServerStep ==
    /\ exec.cmds # <<>>
    /\ LET c == Head(exec.cmds)
           rest == Tail(exec.cmds)
       IN  /\ store' = RunCommand(store, c)
           /\ log' = IF c.cmd = "EVALSHA"
                     THEN LET r == ScriptResult(store, c)
                          IN  Append(log, [driver |-> exec.owner, script |-> c.script,
                                           name |-> c.args[1], app |-> c.args[2],
                                           salary |-> c.args[3], id |-> r.id,
                                           created |-> r.created,
                                           rivals |-> Rivals(exec.owner, c)])
                     ELSE log
           /\ pushes' = IF c.cmd = "LPUSH"
                        THEN Put(pushes, c.key, Append(Lookup(pushes, c.key, <<>>), c.args[1]))
                        ELSE pushes
           /\ IF rest = <<>>
              THEN /\ exec' = Idle
                   /\ pc' = [pc EXCEPT ![exec.owner] =
                                 IF @ = "waiting" THEN "next" ELSE @]
              ELSE /\ exec' = [exec EXCEPT !.cmds = rest]
                   /\ UNCHANGED pc
    /\ UNCHANGED <<objs, batch, pipe, kind, nbatch, ncalls, flushes, queued, fnVars>>

\* every driver has returned from import_in_batches
AllDone == exec = Idle /\ \A d \in Drivers : pc[d] = "done"

---------------------------------------------------------------------------
(* The h1b specification: drivers importing applications into one store.    *)

\* a CSV row: id, case status, employer, soc, job title, full time, wage,
\* year, worksite, longitude, latitude
Row(id, employer, soc, job, wage) ==
    <<id, "CERTIFIED", employer, soc, job, "Y", wage, "2016", "AUSTIN, TEXAS", "-97", "30">>

Rows ==
    { Row("a1", "Acme", "15-1132", "Dev", "50000"),
      Row("a2", "Acme", "15-1132", "Ops", "60000"),
      Row("a2", "Bolt", "15-1121", "Acme", "60000"),
      Row("a1", "Acme", "15-1121", "Dev", "60000") }

RECURSIVE SeqsUpTo(_, _)
SeqsUpTo(S, n) ==
    IF n = 0 THEN {<<>>}
    ELSE LET shorter == SeqsUpTo(S, n - 1)
         IN  shorter \cup {Append(q, x) : q \in {r \in shorter : Len(r) = n - 1}, x \in S}

Init ==
    /\ store = EmptyStore
    /\ exec = Idle
    /\ \E r1 \in SeqsUpTo(Rows, MaxRecs) :
       \E r2 \in SeqsUpTo(Rows, MaxRecs - Len(r1)) :
           objs = ("d1" :> parse_applications(r1)) @@ ("d2" :> parse_applications(r2))
    /\ batch = [d \in Drivers |-> <<>>]
    /\ pipe = [d \in Drivers |-> <<>>]
    /\ pc = [d \in Drivers |-> "next"]
    /\ kind = [d \in Drivers |-> "applications"]
    /\ log = <<>>
    /\ nbatch = [d \in Drivers |-> 0]
    /\ ncalls = [d \in Drivers |-> 0]
    /\ flushes = [d \in Drivers |-> <<>>]
    /\ queued = [d \in Drivers |-> <<>>]
    /\ pushes = NoMap
    /\ fnargs = <<>>
    /\ fnresult = <<>>

Next ==
    \/ \E d \in Drivers : NextBatch(d)
    \/ \E d \in Drivers : RunCallbacks(d)
    \/ \E d \in Drivers : Execute(d)
    \/ ServerStep

Spec == Init /\ [][Next]_vars

---------------------------------------------------------------------------
(* The posts specification: drivers importing posts into one store.  Driver *)
(* d1 reads a file of questions 1..n tagged <redis>; driver d2 reads a      *)
(* short shard of other posts.                                              *)

\* the longest file of questions
MaxPosts == 250
\* the longest shard of the second driver
MaxShard == 1

PostCounts == {0, 1, BatchSize + 1, TrimStop + 2, MaxPosts}

QuestionPost(id) ==
    [id |-> id, posttypeid |-> "1", score |-> "5", tags |-> <<"<", "redis", ">">>]

Questions(n) == [i \in 1..n |-> QuestionPost(ToString(i))]

ShardPosts ==
    { [id |-> "1001", posttypeid |-> "1", score |-> "7", view_count |-> "12",
       owneruserid |-> "9", tags |-> <<"<", "redis", ">", "<", "lua", ">">>],
      [id |-> "1002", posttypeid |-> "2", score |-> "3", owneruserid |-> "9",
       parentid |-> "1"] }

InitPosts ==
    /\ store = EmptyStore
    /\ exec = Idle
    /\ \E n \in PostCounts : \E shard \in SeqsUpTo(ShardPosts, MaxShard) :
           objs = ("d1" :> Questions(n)) @@ ("d2" :> shard)
    /\ batch = [d \in Drivers |-> <<>>]
    /\ pipe = [d \in Drivers |-> <<>>]
    /\ pc = [d \in Drivers |-> "next"]
    /\ kind = [d \in Drivers |-> "posts"]
    /\ log = <<>>
    /\ nbatch = [d \in Drivers |-> 0]
    /\ ncalls = [d \in Drivers |-> 0]
    /\ flushes = [d \in Drivers |-> <<>>]
    /\ queued = [d \in Drivers |-> <<>>]
    /\ pushes = NoMap
    /\ fnargs = <<>>
    /\ fnresult = <<>>

SpecPosts == InitPosts /\ [][Next]_vars

---------------------------------------------------------------------------
(* The batcher on its own: get_batches applied to a record sequence and a   *)
(* batch size.                                                              *)

\* the longest record sequence, and the largest batch size, of the small inputs
MaxLen == 4
MaxB == 3

Items == {[id |-> "r1"], [id |-> "r2"]}

\* every short sequence with every small batch size, and the files of
\* questions with the batch size of import_in_batches
BatchInputs ==
    {[iterable |-> it, batch_size |-> B] :
         it \in SeqsUpTo(Items, MaxLen), B \in 1..MaxB}
    \cup {[iterable |-> Questions(n), batch_size |-> BatchSize] : n \in PostCounts}

NotCalled == [called |-> FALSE, groups |-> <<>>]

InitBatches ==
    /\ fnargs \in BatchInputs
    /\ fnresult = NotCalled
    /\ store = EmptyStore
    /\ exec = Idle
    /\ objs = [d \in Drivers |-> <<>>]
    /\ batch = [d \in Drivers |-> <<>>]
    /\ pipe = [d \in Drivers |-> <<>>]
    /\ pc = [d \in Drivers |-> "done"]
    /\ kind = [d \in Drivers |-> "posts"]
    /\ log = <<>>
    /\ nbatch = [d \in Drivers |-> 0]
    /\ ncalls = [d \in Drivers |-> 0]
    /\ flushes = [d \in Drivers |-> <<>>]
    /\ queued = [d \in Drivers |-> <<>>]
    /\ pushes = NoMap

\* list(get_batches(iterable, batch_size)): the generator run to its end
CallGetBatches ==
    /\ ~fnresult.called
    /\ fnresult' = [called |-> TRUE,
                    groups |-> get_batches(fnargs.iterable, fnargs.batch_size, None)]
    /\ UNCHANGED <<store, exec, objs, batch, pipe, pc, kind, log, nbatch, ncalls,
                   flushes, queued, pushes, fnargs>>

NextBatches == CallGetBatches

SpecBatches == InitBatches /\ [][NextBatches]_vars

---------------------------------------------------------------------------
(* Runs in which the connection to the store can fail during a flush.       *)
(* import_in_batches has no try around pipe.execute(): the exception leaves *)
(* the loops, the function and the script.  The transaction of the failed   *)
(* flush is either not run at all (it never reached the server whole) or    *)
(* run to its end (only the reply was lost).                                *)

\* the state in which the drivers start on the files objs0 with the
\* importers kind0
Start(objs0, kind0) ==
    /\ store = EmptyStore
    /\ exec = Idle
    /\ objs = objs0
    /\ batch = [d \in Drivers |-> <<>>]
    /\ pipe = [d \in Drivers |-> <<>>]
    /\ pc = [d \in Drivers |-> "next"]
    /\ kind = kind0
    /\ log = <<>>
    /\ nbatch = [d \in Drivers |-> 0]
    /\ ncalls = [d \in Drivers |-> 0]
    /\ flushes = [d \in Drivers |-> <<>>]
    /\ queued = [d \in Drivers |-> <<>>]
    /\ pushes = NoMap

FailCounts == {1, BatchSize + 1}

InitFail ==
    /\ \E n \in FailCounts : \E shard \in SeqsUpTo(ShardPosts, MaxShard) :
           Start(("d1" :> Questions(n)) @@ ("d2" :> shard),
                 [d \in Drivers |-> "posts"])
    /\ fnargs = <<>>
    /\ fnresult = <<>>

\* mutant: the exception of execute() is caught and the batch is sent again
FlushFailsSend_Retry(d) ==
    /\ pc[d] = "execute"
    /\ pipe[d] # <<>>
    /\ flushes' = [flushes EXCEPT ![d] = Append(@, [batch |-> nbatch[d], ncmds |-> Len(pipe[d])])]
    /\ UNCHANGED <<store, exec, objs, batch, pipe, pc, kind, log, nbatch, ncalls,
                   queued, pushes, fnVars>>

\* pipe.execute() raises, the transaction did not reach the server
FlushFailsSend(d) ==
    /\ pc[d] = "execute"
    /\ pipe[d] # <<>>
    /\ flushes' = [flushes EXCEPT ![d] = Append(@, [batch |-> nbatch[d], ncmds |-> Len(pipe[d])])]
    /\ pipe' = [pipe EXCEPT ![d] = <<>>]
    /\ pc' = [pc EXCEPT ![d] = "failed"]
    /\ UNCHANGED <<store, exec, objs, batch, kind, log, nbatch, ncalls, queued,
                   pushes, fnVars>>

\* pipe.execute() raises while it waits for the reply; the server has the
\* transaction and runs it
FlushFailsReply(d) ==
    /\ pc[d] = "waiting"
    /\ exec.owner = d
    /\ pc' = [pc EXCEPT ![d] = "failed"]
    /\ UNCHANGED <<store, exec, objs, batch, pipe, kind, log, nbatch, ncalls,
                   flushes, queued, pushes, fnVars>>

NextFail ==
    \/ \E d \in Drivers : NextBatch(d)
    \/ \E d \in Drivers : RunCallbacks(d)
    \/ \E d \in Drivers : Execute(d)
    \/ ServerStep
    \/ \E d \in Drivers : FlushFailsSend(d)
    \/ \E d \in Drivers : FlushFailsReply(d)

SpecFail == InitFail /\ [][NextFail]_vars

---------------------------------------------------------------------------
(* Files with records of every shape: one driver imports one file of one    *)
(* importer; the other driver has an empty file.                            *)

\* the records of a short file
MaxFile == 2

\* a CSV row with its coordinates
RowAt(id, employer, soc, job, wage, long, lat) ==
    <<id, "CERTIFIED", employer, soc, job, "Y", wage, "2016", "AUSTIN, TEXAS", long, lat>>

\* a plain row, a row with no number for a wage, a row with an empty id, a
\* row on the equator, a row on the prime meridian, a row without coordinates
EdgeRows ==
    { RowAt("a1", "Acme", "15-1132", "Dev", "50000", "-97", "30"),
      RowAt("a3", "Acme", "15-1121", "Ops", "N/A", "-97", "30"),
      RowAt("", "Bolt", "15-1121", "Ops", "60000", "-97", "30"),
      RowAt("a4", "Bolt", "15-1132", "Dev", "60000", "-97", "0"),
      RowAt("a5", "Bolt", "15-1132", "Ops", "50000", "0", "30"),
      RowAt("a6", "Acme", "15-1121", "Dev", "60000", "NA", "NA") }

\* a question, a question without Id, a tag wiki, an answer
EdgePosts ==
    { QuestionPost("1"),
      [posttypeid |-> "1", score |-> "5", tags |-> <<"<", "redis", ">">>],
      [id |-> "2003", posttypeid |-> "5", score |-> "2", owneruserid |-> "9",
       parentid |-> "1", tags |-> <<"<", "redis", ">">>],
      [id |-> "1002", posttypeid |-> "2", score |-> "3", owneruserid |-> "9",
       parentid |-> "1"] }

EdgeUsers ==
    { [id |-> "9", reputation |-> "12"],
      [id |-> "8", reputation |-> "5"],
      [reputation |-> "7"] }

EdgeBadges ==
    { [userid |-> "9", name |-> "Teacher"],
      [userid |-> "8", name |-> "Teacher"],
      [userid |-> "9", name |-> "Editor"] }

EdgeComments ==
    { [id |-> "c1", postid |-> "1", score |-> "2", userid |-> "9"],
      [id |-> "c2", postid |-> "1", score |-> "0"],
      [postid |-> "1", score |-> "3", userid |-> "9"] }

\* a row element without attributes (for the badges: with neither UserId nor
\* Name): parse_rows yields the dict with no keys
EmptyRow == <<>>

Kinds == {"applications", "posts", "users", "badges", "comments"}

\* the files of an importer: the short ones, and for posts files of more
\* than one batch
Files(k) ==
    CASE k = "applications" -> SeqsUpTo(EdgeRows, MaxFile)
      [] k = "posts" ->
             SeqsUpTo(EdgePosts \cup {EmptyRow}, MaxFile)
             \cup {Questions(BatchSize) \o f : f \in SeqsUpTo(EdgePosts \cup {EmptyRow}, 1)}
             \cup {f \o Questions(BatchSize) : f \in SeqsUpTo(EdgePosts \cup {EmptyRow}, 1)}
      [] k = "users" -> SeqsUpTo(EdgeUsers \cup {EmptyRow}, MaxFile)
      [] k = "badges" -> SeqsUpTo(EdgeBadges \cup {EmptyRow}, MaxFile)
      [] k = "comments" -> SeqsUpTo(EdgeComments \cup {EmptyRow}, MaxFile)

\* the records the source of an importer yields for a file
Records(k, file) ==
    IF k = "applications" THEN parse_applications(file) ELSE file

InitRecords ==
    \E k \in Kinds : \E file \in Files(k) :
        /\ Start(("d1" :> Records(k, file)) @@ ("d2" :> <<>>),
                 [d \in Drivers |-> k])
        /\ fnargs = [kind |-> k, file |-> file]
        /\ fnresult = <<>>

SpecRecords == InitRecords /\ [][Next]_vars

---------------------------------------------------------------------------
(* The script run twice on an unchanged file: when the first run is over    *)
(* the importer is started again on the same file and the same store.       *)
(* fnresult keeps the keyspace the first run left.                          *)

RerunCounts == {1, TrimStop, TrimStop + 1, MaxPosts}

RerunFiles(k) ==
    CASE k = "applications" -> SeqsUpTo(Rows, MaxFile)
      [] k = "posts" -> {Questions(n) : n \in RerunCounts}
                        \cup {<<post>> : post \in ShardPosts}
      [] k = "users" -> SeqsUpTo(EdgeUsers, MaxFile)
      [] k = "badges" -> SeqsUpTo(EdgeBadges, MaxFile)
      [] k = "comments" -> SeqsUpTo(EdgeComments, MaxFile)

InitRerun ==
    \E k \in Kinds : \E file \in RerunFiles(k) :
        /\ Start(("d1" :> Records(k, file)) @@ ("d2" :> <<>>),
                 [d \in Drivers |-> k])
        /\ fnargs = [kind |-> k, file |-> file, runs |-> 1]
        /\ fnresult = EmptyStore

\* the script is started a second time
Rerun ==
    /\ AllDone
    /\ fnargs.runs = 1
    /\ fnargs' = [fnargs EXCEPT !.runs = 2]
    /\ fnresult' = store
    /\ objs' = [objs EXCEPT !["d1"] = Records(fnargs.kind, fnargs.file)]
    /\ pc' = [d \in Drivers |-> "next"]
    /\ UNCHANGED <<store, exec, batch, pipe, kind, log, nbatch, ncalls, flushes,
                   queued, pushes>>

NextRerun ==
    \/ \E d \in Drivers : NextBatch(d)
    \/ \E d \in Drivers : RunCallbacks(d)
    \/ \E d \in Drivers : Execute(d)
    \/ ServerStep
    \/ Rerun

SpecRerun == InitRerun /\ [][NextRerun]_vars

---------------------------------------------------------------------------
(* The keys of an entity type, named by the script that allocates its ids.  *)

Scripts == {"save_employer", "save_soc", "save_job"}

NameToIdKey(sc) ==
    CASE sc = "save_employer" -> "employer_name_to_id"
      [] sc = "save_soc" -> "soc_name_to_id"
      [] sc = "save_job" -> "job_name_to_id"

CounterKey(sc) ==
    CASE sc = "save_employer" -> "employer_id_counter"
      [] sc = "save_soc" -> "soc_id_counter"
      [] sc = "save_job" -> "job_id_counter"

Prefix(sc) ==
    CASE sc = "save_employer" -> "employers"
      [] sc = "save_soc" -> "soc"
      [] sc = "save_job" -> "jobs"

Counter(s, sc) == Lookup(s.strings, CounterKey(sc), 0)
NameToId(s, sc) == Lookup(s.hashes, NameToIdKey(sc), NoMap)
WagesKey(sc, id) == Prefix(sc) \o ":" \o id \o ":wages_by_application"
Wages(s, sc, id) == Lookup(s.zsets, WagesKey(sc, id), NoMap)

\* the calls of one script, and the distinct natural keys they presented
CallsOf(sc) == {i \in DOMAIN log : log[i].script = sc}
NamesOf(sc) == {log[i].name : i \in CallsOf(sc)}

\* the step is the server running one script call
ScriptStep == log' # log
LastCall == log'[Len(log')]

---------------------------------------------------------------------------
(* Claims about the id allocator (h1b_to_redis.py), under Spec.             *)

\* C1  Allocator uniqueness: of any two calls of one script (one entity
\* type), in one batch or in different batches, the resolved ids are equal
\* exactly when the natural keys are equal, whatever calls came in between;
\* and the resolved id is the one whose ranked set holds the call's entry.
C1_AllocatorUniqueness ==
    /\ \A i, j \in DOMAIN log :
          log[i].script = log[j].script =>
              ((log[i].name = log[j].name) <=> (log[i].id = log[j].id))
    /\ \A i \in DOMAIN log :
          log[i].app \in DOMAIN Wages(store, log[i].script, log[i].id)

\* a key allocated, another key allocated, the first key again from another
\* driver (so from another batch): ids equal, distinct, equal
C1_Witness ==
    \E i, j, k \in DOMAIN log :
        /\ i < j /\ j < k
        /\ log[i].script = "save_employer"
        /\ log[j].script = "save_employer"
        /\ log[k].script = "save_employer"
        /\ log[i].name = log[k].name /\ log[i].name # log[j].name
        /\ log[i].driver # log[k].driver
        /\ log[i].id = log[k].id /\ log[i].id # log[j].id

\* C2  At-most-one-winner: of all the calls for one natural key of one
\* entity type, from whichever drivers, exactly one takes the create
\* branch, and it is the first; the counter has been incremented once per
\* key; all calls resolve to one id; and no call is lost: when every driver
\* has finished, each callback invocation has had its three script calls run.
C2_AtMostOneWinner ==
    /\ \A sc \in Scripts : \A n \in NamesOf(sc) :
          LET calls == {i \in CallsOf(sc) : log[i].name = n}
              first == CHOOSE i \in calls : \A j \in calls : i <= j
          IN  /\ {i \in calls : log[i].created} = {first}
              /\ \A i \in calls : log[i].id = log[first].id
    /\ \A sc \in Scripts :
          Counter(store, sc) = Cardinality({i \in CallsOf(sc) : log[i].created})
    /\ AllDone => Len(log) = 3 * (ncalls["d1"] + ncalls["d2"])

\* two drivers held a first-time call for the same key at the same time;
\* one created the id, the other found it
C2_Witness ==
    \E i, j \in DOMAIN log :
        /\ i < j
        /\ log[i].script = log[j].script /\ log[i].name = log[j].name
        /\ log[i].created /\ ~log[j].created
        /\ log[j].driver \in log[i].rivals
        /\ log[i].id = log[j].id

\* C3  Counter monotonicity: in every step each id counter stays or grows by
\* exactly 1; it grows only in a call of its script for a key not yet in
\* the name-to-id map; and it equals the number of distinct natural keys
\* allocated so far for its type.
C3_CounterStep ==
    \A sc \in Scripts :
        /\ Counter(store', sc) \in {Counter(store, sc), Counter(store, sc) + 1}
        /\ Counter(store', sc) # Counter(store, sc) =>
               /\ ScriptStep
               /\ LastCall.script = sc
               /\ LastCall.name \notin DOMAIN NameToId(store, sc)

C3_CounterCount ==
    \A sc \in Scripts : Counter(store, sc) = Cardinality(NamesOf(sc))

C3_CounterMonotonicity == [][C3_CounterStep]_vars /\ []C3_CounterCount

\* two distinct keys and a repeated key have been allocated for one type
C3_Witness ==
    /\ Counter(store, "save_employer") = 2
    /\ Cardinality(CallsOf("save_employer")) = 3

\* C4  Name-to-id map: each map is injective, its ids are exactly
\* 1..counter, the k-th distinct name first allocated has id k, and an entry
\* once written is never changed or removed.
C4_MapShape ==
    \A sc \in Scripts :
        LET m == NameToId(store, sc)
        IN  /\ \A a, b \in DOMAIN m : m[a] = m[b] => a = b
            /\ {m[a] : a \in DOMAIN m} = {ToString(k) : k \in 1..Counter(store, sc)}
            /\ DOMAIN m = NamesOf(sc)
            /\ \A i \in CallsOf(sc) :
                  log[i].created =>
                      m[log[i].name] =
                          ToString(1 + Cardinality({j \in CallsOf(sc) :
                                                      j < i /\ log[j].created}))

C4_MapKept ==
    \A sc \in Scripts :
        \A a \in DOMAIN NameToId(store, sc) :
            /\ a \in DOMAIN NameToId(store', sc)
            /\ NameToId(store', sc)[a] = NameToId(store, sc)[a]

C4_NameToIdMap == []C4_MapShape /\ [][C4_MapKept]_vars

\* Bolt was seen first and Acme second, and a later call found Bolt again
C4_Witness ==
    /\ "employer_name_to_id" \in DOMAIN store.hashes
    /\ DOMAIN store.hashes["employer_name_to_id"] = {"Acme", "Bolt"}
    /\ store.hashes["employer_name_to_id"]["Bolt"] = "1"
    /\ store.hashes["employer_name_to_id"]["Acme"] = "2"
    /\ \E i \in CallsOf("save_employer") : log[i].name = "Bolt" /\ ~log[i].created

\* C5  The score is never dropped: right after every script call, on either
\* branch, the ranked set of the resolved id maps the call's application id
\* to the call's wage.  Scenario A: when the employer calls of a finished
\* run were Acme/a1/50000 then Acme/a2/60000, the employer counter is 1,
\* Acme has id 1, and employers:1:wages_by_application holds exactly a1 with
\* 50000 and a2 with 60000.
C5_ScoreWritten ==
    ScriptStep =>
        LET z == Wages(store', LastCall.script, LastCall.id)
        IN  LastCall.app \in DOMAIN z /\ z[LastCall.app] = LastCall.salary

ScenarioA ==
    /\ AllDone
    /\ Len(log) = 6
    /\ \E i, j \in CallsOf("save_employer") :
          /\ i < j
          /\ log[i].name = "Acme" /\ log[i].app = "a1" /\ log[i].salary = 50000
          /\ log[j].name = "Acme" /\ log[j].app = "a2" /\ log[j].salary = 60000

C5_ScenarioA ==
    ScenarioA =>
        /\ store.strings["employer_id_counter"] = 1
        /\ store.hashes["employer_name_to_id"] = ("Acme" :> "1")
        /\ store.zsets["employers:1:wages_by_application"] =
               ("a1" :> 50000) @@ ("a2" :> 60000)

C5_ScoreNeverDropped == [][C5_ScoreWritten]_vars /\ []C5_ScenarioA

\* Scenario A has run, with its second call on the existing-id branch
C5_Witness ==
    /\ ScenarioA
    /\ \E j \in CallsOf("save_employer") : log[j].app = "a2" /\ ~log[j].created

\* C6  Existing-key frame: a script call whose natural key is already in
\* the name-to-id map changes no string key (so no counter), no hash (so no
\* name-to-id map and no entity hash), no set, list or geo index, and no
\* ranked set but the one of the resolved id.  A script call of one entity
\* type changes neither the counter nor the map of another type.
C6_Frame ==
    ScriptStep =>
        /\ ~LastCall.created =>
              /\ store'.strings = store.strings
              /\ store'.hashes = store.hashes
              /\ store'.sets = store.sets
              /\ store'.lists = store.lists
              /\ store'.geo = store.geo
              /\ DOMAIN store'.zsets = DOMAIN store.zsets
              /\ \A k \in DOMAIN store.zsets :
                    k # WagesKey(LastCall.script, LastCall.id) =>
                        store'.zsets[k] = store.zsets[k]
        /\ \A sc \in Scripts \ {LastCall.script} :
              /\ Counter(store', sc) = Counter(store, sc)
              /\ NameToId(store', sc) = NameToId(store, sc)

C6_ExistingKeyFrame == [][C6_Frame]_vars

\* a call on the existing-id branch has run while another type had ids
C6_Witness ==
    \E i \in DOMAIN log :
        /\ ~log[i].created
        /\ log[i].script = "save_job"
        /\ Counter(store, "save_employer") = 2


\* ---------------------------------------------------------------------
\* The recency lists of the posts writer and the batches of the driver
\* ---------------------------------------------------------------------
RecentKey(tag) == "tags:" \o tag \o ":recent_questions"

RecentList(key) == Lookup(store.lists, key, <<>>)

\* the server is between the lpush of a question on key and its ltrim
TrimPending(key) ==
    /\ exec.cmds # <<>>
    /\ Head(exec.cmds).cmd = "LTRIM"
    /\ Head(exec.cmds).key = key

\* the driver d1, the one started on the questions 1..n, has ingested them
\* all, and the other driver had nothing to ingest
RanAlone(n) ==
    /\ pc["d1"] = "done"
    /\ ncalls["d1"] = n
    /\ nbatch["d2"] = 0
    /\ objs["d2"] = <<>>

\* C7: whatever number of questions carries a tag, and with one driver or
\* several running at once, the recency list of the tag never holds more
\* than 201 entries; the 202nd entry exists only inside the transaction
\* that pushed it, between its lpush and the ltrim that follows it.
C7_RecencyListBounded ==
    \A key \in DOMAIN store.lists :
        \/ Len(store.lists[key]) <= 201
        \/ Len(store.lists[key]) = 202 /\ TrimPending(key)

\* more than 201 questions of both drivers were pushed on the list of the
\* tag redis, and the list is full
C7_Witness ==
    /\ exec = Idle
    /\ Len(Lookup(pushes, RecentKey("redis"), <<>>)) > 202
    /\ Len(RecentList(RecentKey("redis"))) = 201
    /\ \E i \in 1..201 : RecentList(RecentKey("redis"))[i] = "1001"
    /\ \E i \in 1..201 : RecentList(RecentKey("redis"))[i] = "250"

\* the list of key holds the min(k, 201) most recent of the k questions
\* pushed on it, the most recent one first
RecentOfPushes(key) ==
    LET h == pushes[key]
        l == RecentList(key)
    IN  /\ Len(l) = Min(Len(h), IF TrimPending(key) THEN 202 ELSE 201)
        /\ \A i \in 1..Len(l) : l[i] = h[Len(h) - i + 1]

\* a driver that ingested the questions 1..n alone leaves the ids
\* n, n-1, ... down to max(1, n-200) in the list, the list read from its
\* head: the source order, the most recent first
RecentOfSource ==
    \A n \in PostCounts :
        RanAlone(n) =>
            RecentList(RecentKey("redis")) =
                [i \in 1..Min(n, 201) |-> ToString(n - i + 1)]

\* Scenario D: questions 1..250 with the tag redis, in order
ScenarioD ==
    RanAlone(250) =>
        LET l == RecentList(RecentKey("redis"))
        IN  /\ Len(l) = 201
            /\ {l[i] : i \in 1..Len(l)} = {ToString(j) : j \in 50..250}
            /\ \A i \in 1..201 : l[i] = ToString(251 - i)

\* C8: after n questions with a tag are ingested by one driver, the recency
\* list of the tag holds exactly the min(n, 201) most recent ones, in the
\* order they were pushed (the latest at the head); after the questions
\* 1..250 it holds exactly the ids 50..250.
C8_RecencyListContents ==
    /\ \A key \in DOMAIN pushes : RecentOfPushes(key)
    /\ RecentOfSource
    /\ ScenarioD

\* Scenario D has run to its end
C8_Witness ==
    /\ RanAlone(250)
    /\ Len(pushes[RecentKey("redis")]) = 250
    /\ RecentList(RecentKey("redis"))[1] = "250"
    /\ RecentList(RecentKey("redis"))[201] = "50"

RECURSIVE Concat(_)
Concat(groups) ==
    IF groups = <<>> THEN <<>> ELSE Head(groups) \o Concat(Tail(groups))

Present(slot) == slot # None

\* C9: for a record sequence of length n and a batch size B, get_batches
\* yields exactly ceil(n/B) groups (none for an empty source), every group
\* has exactly B slots, the absent marker occurs only as a suffix of the
\* last group, and the groups concatenated, the absent markers removed, are
\* the source sequence in its order.
C9_Batcher ==
    fnresult.called =>
        LET src == fnargs.iterable
            B == fnargs.batch_size
            g == fnresult.groups
        IN  /\ Len(g) = (Len(src) + B - 1) \div B
            /\ \A k \in DOMAIN g : Len(g[k]) = B
            /\ \A k \in DOMAIN g : \A j \in 1..B :
                   ~Present(g[k][j]) =>
                       /\ k = Len(g)
                       /\ \A i \in j..B : ~Present(g[k][i])
            /\ \A k \in DOMAIN g : Present(g[k][1])
            /\ SelectSeq(Concat(g), Present) = src

\* a source that does not fill its last group: two groups or more, the last
\* one padded
C9_Witness ==
    /\ fnresult.called
    /\ Len(fnresult.groups) >= 2
    /\ Present(fnresult.groups[Len(fnresult.groups)][1])
    /\ ~Present(fnresult.groups[Len(fnresult.groups)][fnargs.batch_size])

\* the records whose commands wait in the pipeline of driver d
PendingRecs(d) == {pipe[d][i].rec : i \in DOMAIN pipe[d]}

\* C10: no command of batch k+1 is queued before the flush of batch k has
\* completed; the commands pending in a driver's pipeline belong to one
\* batch of at most 100 records; and all the commands queued for a batch are
\* submitted together in one flush, the k-th flush being that of batch k.
C10_PipelineSerialisation ==
    \A d \in Drivers :
        /\ \A i \in DOMAIN pipe[d] : pipe[d][i].b = nbatch[d]
        /\ Cardinality(PendingRecs(d)) <= 100
        /\ pipe[d] # <<>> => exec.owner # d /\ Len(flushes[d]) = nbatch[d] - 1
        /\ exec.owner = d =>
               /\ pc[d] = "waiting"
               /\ \A i \in DOMAIN exec.cmds : exec.cmds[i].b = nbatch[d]
        /\ \A k \in DOMAIN flushes[d] :
               /\ flushes[d][k].batch = k
               /\ flushes[d][k].ncmds = queued[d][k]
        /\ pc[d] \in {"next", "done"} => Len(flushes[d]) = nbatch[d]

\* the second batch of a driver is queued, a full batch of 100 records,
\* after the flush of its first batch
C10_Witness ==
    /\ nbatch["d1"] = 2
    /\ Cardinality(PendingRecs("d1")) = 100
    /\ Len(flushes["d1"]) = 1
    /\ flushes["d1"][1].ncmds > 100

\* ---------------------------------------------------------------------
\* Failures of a flush
\* ---------------------------------------------------------------------
Halted(d) == pc[d] = "failed"

\* a halted driver stays halted: it reads no record, queues no command and
\* sends no flush, and the server takes no new transaction from it
HaltedStep ==
    \A d \in Drivers :
        Halted(d) =>
            /\ pc'[d] = "failed"
            /\ objs'[d] = objs[d]
            /\ batch'[d] = batch[d]
            /\ pipe'[d] = pipe[d]
            /\ nbatch'[d] = nbatch[d]
            /\ ncalls'[d] = ncalls[d]
            /\ queued'[d] = queued[d]
            /\ flushes'[d] = flushes[d]
            /\ exec'.owner = d => exec.owner = d

\* no batch is sent twice, and the failure is that of the driver's current
\* batch, the last one it sent, with nothing left queued
FailedOnce ==
    \A d \in Drivers :
        /\ \A i, j \in DOMAIN flushes[d] :
               flushes[d][i].batch = flushes[d][j].batch => i = j
        /\ Halted(d) =>
               /\ pipe[d] = <<>>
               /\ Len(flushes[d]) = nbatch[d]
               /\ flushes[d][nbatch[d]].batch = nbatch[d]

\* C11: when the flush of a batch fails the driver gets one failure for the
\* whole batch, the batch is never sent again, and the driver halts: after
\* the failure it reads no further record, queues no further command and
\* flushes no later batch.
C11_BatchTransportFailure == [][HaltedStep]_vars /\ []FailedOnce

\* the flush of the first batch of 100 failed, one record is left unread,
\* and the run of the other driver is over
C11_Witness ==
    /\ Halted("d1")
    /\ nbatch["d1"] = 1
    /\ Len(objs["d1"]) = 1
    /\ pc["d2"] = "done"
    /\ exec = Idle

\* ---------------------------------------------------------------------
\* Records of every shape
\* ---------------------------------------------------------------------
\* the record of a file carries its identifying field
HasId(k, rec) == IF k = "applications" THEN rec[1] # "" ELSE "id" \in DOMAIN rec

\* the post has a discriminant that is a number
TypedPost(post) ==
    "posttypeid" \in DOMAIN post /\ Strip(post["posttypeid"]) \in DOMAIN IntOf

\* the key of the entity hash of a record with an id; a post of an
\* unsupported type has none
EntityKeys(k, rec) ==
    CASE k = "applications" -> {"applications:" \o rec[1]}
      [] k = "users" -> {"users:" \o rec["id"]}
      [] k = "comments" -> {"comments:" \o rec["id"]}
      [] k = "posts" ->
             IF TypedPost(rec) /\ _post_type(rec["posttypeid"]) # ""
             THEN {_post_type(rec["posttypeid"]) \o ":" \o rec["id"]}
             ELSE {}
      [] k = "badges" -> {}

\* every record of the file that has an id has its entity hash in the store
OthersWritten ==
    \A i \in DOMAIN fnargs.file :
        HasId(fnargs.kind, fnargs.file[i]) =>
            EntityKeys(fnargs.kind, fnargs.file[i]) \subseteq DOMAIN store.hashes

\* C12 (as claimed): in every importer a record without its identifying
\* field causes no store write and is not an error: no callback raises, a
\* file of such records alone leaves the store empty, and at the end of the
\* run the other records of the file are written.
C12_DroppedRecord ==
    fnargs.kind \in {"applications", "users", "posts", "comments"} =>
        /\ \A d \in Drivers : pc[d] # "raised"
        /\ (\A i \in DOMAIN fnargs.file : ~HasId(fnargs.kind, fnargs.file[i]))
               => store = EmptyStore
        /\ (\A d \in Drivers : pc[d] \in {"done", "raised"}) /\ exec = Idle
               => OthersWritten

\* the discriminant of the post is a number other than 1 (question) and
\* 2 (answer)
Unsupported(post) ==
    TypedPost(post) /\ IntOf[Strip(post["posttypeid"])] \notin {1, 2}

\* the commands of driver d that are queued or sent and not yet run
Pending(d) == pipe[d] \o (IF exec.owner = d THEN exec.cmds ELSE <<>>)

\* nothing in the store mentions the post id
NoTrace(id) ==
    /\ \A key \in DOMAIN store.hashes :
           key \notin {t \o ":" \o id : t \in {"questions", "answers", "generic-post"}}
    /\ "questions:" \o id \o ":tags" \notin DOMAIN store.sets
    /\ \A key \in DOMAIN store.zsets : id \notin DOMAIN store.zsets[key]
    /\ \A key \in DOMAIN store.sets : id \notin store.sets[key]
    /\ \A key \in DOMAIN store.lists :
           \A i \in DOMAIN store.lists[key] : store.lists[key][i] # id

\* every post of the file is of an unsupported type or has an id
NoIdlessPost ==
    \A i \in DOMAIN fnargs.file :
        Unsupported(fnargs.file[i]) \/ HasId("posts", fnargs.file[i])

\* C13: a post whose posttypeid is neither that of a question nor that of an
\* answer queues no command and leaves nothing in the store, it raises no
\* error, and the other records of its batch are processed and flushed.
C13_UnsupportedType ==
    fnargs.kind = "posts" =>
        /\ \A d \in Drivers : \A i \in DOMAIN Pending(d) :
               ~Unsupported(batch[d][Pending(d)[i].rec])
        /\ NoIdlessPost => \A d \in Drivers : pc[d] # "raised"
        /\ NoIdlessPost /\ AllDone =>
               /\ OthersWritten
               /\ \A i \in DOMAIN fnargs.file :
                      Unsupported(fnargs.file[i]) => NoTrace(fnargs.file[i]["id"])

\* a tag wiki followed by a question in one batch: the run is over and the
\* question is written
C13_Witness ==
    /\ fnargs.kind = "posts"
    /\ Len(fnargs.file) = 2
    /\ Unsupported(fnargs.file[1])
    /\ fnargs.file[2] = QuestionPost("1")
    /\ AllDone
    /\ "questions:1" \in DOMAIN store.hashes
    /\ flushes["d1"] # <<>>

\* the geo index of the applications
Locations == Lookup(store.geo, "application_location", NoMap)

\* the column of the CSV row is the text of a number
Parsed(row, col) == row[col] \in DOMAIN FloatOf

\* C14 (as claimed): after the run every application record has a geo point
\* (its id, longitude, latitude) in application_location exactly when both
\* its coordinates parsed to a number, whatever the numbers are; with or
\* without a geo point its hash is written and the three allocator scripts
\* are called for it.
C14_GeoPoint ==
    fnargs.kind = "applications" /\ AllDone =>
        \A i \in DOMAIN fnargs.file :
            LET row == fnargs.file[i]
            IN  HasId("applications", row) =>
                    /\ row[1] \in DOMAIN Locations
                           <=> Parsed(row, 10) /\ Parsed(row, 11)
                    /\ row[1] \in DOMAIN Locations =>
                           Locations[row[1]] = <<FloatOf[row[10]], FloatOf[row[11]]>>
                    /\ "applications:" \o row[1] \in DOMAIN store.hashes
                    /\ \A sc \in Scripts : \E j \in CallsOf(sc) : log[j].app = row[1]

\* ---------------------------------------------------------------------
\* The script run twice
\* ---------------------------------------------------------------------
\* the second run is over; fnresult is the keyspace the first run left
SecondRunDone == fnargs.runs = 2 /\ AllDone

\* C15 (as claimed): running the whole ingestion twice over an unchanged
\* source leaves every ranked set, every membership set and the geo index
\* with the content they had after the first run.
C15_RerunIdempotence ==
    SecondRunDone =>
        /\ store.zsets = fnresult.zsets
        /\ store.sets = fnresult.sets
        /\ store.geo = fnresult.geo

\* the id counters and the name-to-id maps of the three entity types
Allocators(s) ==
    [sc \in Scripts |-> [counter |-> Counter(s, sc), ids |-> NameToId(s, sc)]]

\* C16 (as claimed): a second run over an unchanged source, every natural key
\* and every tag being already seen, changes the id counters and the recency
\* lists: after it every id counter and every recency list differs from what
\* the first run left.
C16_RerunChangesCountersAndLists ==
    SecondRunDone =>
        /\ \A sc \in Scripts :
               CounterKey(sc) \in DOMAIN fnresult.strings =>
                   Counter(store, sc) # Counter(fnresult, sc)
        /\ \A key \in DOMAIN fnresult.lists :
               store.lists[key] # fnresult.lists[key]

\* the number of questions of the file pushed on the recency list key: each
\* of the two runs pushes every one of them once
Carrying(key) == Len(Lookup(pushes, key, <<>>)) \div 2

\* C16 (amended): a second run over an unchanged source leaves every id
\* counter and every name-to-id map as the first run left them, since every
\* natural key is already seen; it pushes every question again on the
\* recency lists of its tags, so that the list of a tag that fewer than 201
\* questions of the source carry changes (it gains the ids a second time, up
\* to 201 entries), and the list of a tag that 201 questions or more carry
\* is the same after both runs.
C16_RerunKeepsCounters ==
    SecondRunDone =>
        /\ store.strings = fnresult.strings
        /\ Allocators(store) = Allocators(fnresult)
        /\ fnargs.kind = "posts" =>
               /\ DOMAIN store.lists = DOMAIN fnresult.lists
               /\ \A key \in DOMAIN fnresult.lists :
                      /\ store.lists[key] # fnresult.lists[key] <=> Carrying(key) < 201
                      /\ Len(store.lists[key]) = Min(2 * Carrying(key), 201)
                      /\ \A i \in 1..Min(Carrying(key), Len(store.lists[key])) :
                             store.lists[key][i] = fnresult.lists[key][i]

\* the second run of a file of one question with two tags is over: the
\* lists of both tags hold its id twice
C16_Witness ==
    /\ SecondRunDone
    /\ fnargs.kind = "posts"
    /\ Carrying(RecentKey("lua")) = 1
    /\ Lookup(fnresult.lists, RecentKey("lua"), <<>>) = <<"1001">>
    /\ RecentList(RecentKey("lua")) = <<"1001", "1001">>
    /\ RecentList(RecentKey("redis")) = <<"1001", "1001">>

\* ---------------------------------------------------------------------
\* The indexes and the entities they index
\* ---------------------------------------------------------------------
\* the natural key of an entity type in the hash of an application
NameOf(sc, application) ==
    CASE sc = "save_employer" -> application.employer_name
      [] sc = "save_soc" -> application.soc_name
      [] sc = "save_job" -> application.job_title

\* the ids an entity type has given out
IdsOf(sc) == {NameToId(store, sc)[n] : n \in DOMAIN NameToId(store, sc)}

\* C17 (as claimed): after any sequence of flushed batches every application
\* id a in employers:<e>:wages_by_application belongs to employer e: the
\* hash applications:<a> has an employer_name n with employer_name_to_id[n]
\* = e, and the score of a is the prevailing_wage of that hash; the same for
\* soc:<id> and jobs:<id>.
C17_IndexConsistency ==
    exec = Idle =>
        \A sc \in Scripts : \A e \in IdsOf(sc) : \A a \in DOMAIN Wages(store, sc, e) :
            /\ "applications:" \o a \in DOMAIN store.hashes
            /\ LET application == store.hashes["applications:" \o a]
               IN  /\ NameOf(sc, application) \in DOMAIN NameToId(store, sc)
                   /\ NameToId(store, sc)[NameOf(sc, application)] = e
                   /\ Wages(store, sc, e)[a] = application.prevailing_wage.num

\* the ranked set of the badges, and the two membership sets of a badge row
Popularity == Lookup(store.zsets, "badges_by_popularity", NoMap)
BadgeUsers(name) == Lookup(store.sets, "badges:" \o name \o ":users", {})
UserBadges(user) == Lookup(store.sets, "users:" \o user \o ":badges", {})

\* C18 (as claimed): after any sequence of ingested badge records the score
\* of each badge name in badges_by_popularity is the number of users that
\* have the badge, the cardinality of badges:<name>:users; and user u is in
\* badges:<name>:users exactly when name is in users:<u>:badges.
C18_BadgePopularity ==
    fnargs.kind = "badges" /\ exec = Idle =>
        /\ \A name \in DOMAIN Popularity :
               Popularity[name] = Cardinality(BadgeUsers(name))
        /\ \A badge \in EdgeBadges : \A other \in EdgeBadges :
               badge.userid \in BadgeUsers(other.name)
                   <=> other.name \in UserBadges(badge.userid)

\* the natural key of an entity type in a CSV row
RowName(sc, row) ==
    CASE sc = "save_employer" -> row[3]
      [] sc = "save_soc" -> row[4]
      [] sc = "save_job" -> row[5]

\* the application of the row is in the store with the wage w: in its hash,
\* and as its score in the ranked sets of its employer, its soc and its job
StoredWithWage(row, w) ==
    /\ "applications:" \o row[1] \in DOMAIN store.hashes
    /\ store.hashes["applications:" \o row[1]].prevailing_wage = Num(w)
    /\ \A sc \in Scripts :
           /\ RowName(sc, row) \in DOMAIN NameToId(store, sc)
           /\ LET e == NameToId(store, sc)[RowName(sc, row)]
              IN  /\ row[1] \in DOMAIN Wages(store, sc, e)
                  /\ Wages(store, sc, e)[row[1]] = w

\* C19: an application record whose wage field is not the text of a number
\* (such as N/A) is not dropped and raises no error; its wage becomes -1, and
\* after the run its id has the score -1 in the wages_by_application ranked
\* sets of its employer, its soc and its job.
C19_MalformedWage ==
    fnargs.kind = "applications" =>
        /\ \A d \in Drivers : pc[d] # "raised"
        /\ AllDone =>
               \A i \in DOMAIN fnargs.file :
                   HasId("applications", fnargs.file[i]) /\ ~Parsed(fnargs.file[i], 7)
                       => StoredWithWage(fnargs.file[i], -1)

\* Scenario B: a file of a plain row and a row with the wage N/A, imported
C19_Witness ==
    /\ fnargs.kind = "applications"
    /\ AllDone
    /\ Len(fnargs.file) = 2
    /\ fnargs.file[1][7] = "50000"
    /\ fnargs.file[2][7] = "N/A"
    /\ StoredWithWage(fnargs.file[1], 50000)
    /\ StoredWithWage(fnargs.file[2], -1)

\* ---------------------------------------------------------------------
\* Order and completion of a run
\* ---------------------------------------------------------------------
\* the number of records the source of driver d yields in the run
SourceLen(d) ==
    IF d = "d1" THEN Len(Records(fnargs.kind, fnargs.file)) ELSE 0

\* the run of driver d is over: import_in_batches returned or was left by
\* an exception
Stopped(d) == pc[d] \in {"done", "raised"}

\* C20 (as claimed): within a driver run the records reach the writer in
\* source order and the commands of a record are submitted in the flush of
\* the batch that holds it; and, no flush failing, the run over a finite
\* source ends after exactly ceil(n/100) flushes with no queued command
\* left unflushed.
C20_OrderingAndCompletion ==
    \A d \in Drivers :
        /\ \A i \in 1..(Len(Pending(d)) - 1) :
               Pending(d)[i].rec <= Pending(d)[i + 1].rec
        /\ \A i \in DOMAIN Pending(d) : Pending(d)[i].b = nbatch[d]
        /\ \A k \in DOMAIN flushes[d] :
               flushes[d][k].batch = k /\ flushes[d][k].ncmds = queued[d][k]
        /\ Stopped(d) =>
               /\ pipe[d] = <<>>
               /\ Len(flushes[d]) = (SourceLen(d) + 99) \div 100

\* C21 (as claimed): in a run without failure the writer callback is invoked
\* exactly once for every record the source yields, whatever the record
\* holds, a field map with no fields included, and never for a padding slot:
\* no queued command comes from a padding slot, and at the end of the run the
\* number of callback invocations is the number of source records.
C21_ExactlyOnce ==
    \A d \in Drivers :
        /\ \A i \in DOMAIN Pending(d) : batch[d][Pending(d)[i].rec] # None
        /\ pc[d] = "done" => ncalls[d] = SourceLen(d)

=============================================================================
